---------------------------- MODULE Spec2Model ----------------------------
(***************************************************************************)
(* State-machine model of eva::core::ReinforcementLearningEngine and its   *)
(* QNetwork (ofo-core/cpp/src/reinforcement_learning.cpp).                 *)
(*                                                                         *)
(* Numbers.  The code computes in double.  The model computes in fixed     *)
(* point: a value v of the code is the integer v * Unit, products are      *)
(* rescaled with integer division.  Sizes and schedule constants of the    *)
(* engine are scaled down so that eviction, a target sync and the epsilon  *)
(* floor are all reached within a few calls; the comparisons and updates   *)
(* are those of the code.  Sums are exact in fixed point; the running sum  *)
(* and the quotient of getAverageReward are rounded as a floating-point    *)
(* format of few significant bits rounds them (Double).                    *)
(***************************************************************************)
EXTENDS Integers, Sequences, FiniteSets

(***************************************************************************)
(* Model bounds                                                            *)
(***************************************************************************)
\* fixed-point resolution: the double 1.0 is Unit
Unit == 16
\* buffer_capacity_(10000), reinforcement_learning.cpp:114, scaled down
buffer_capacity_ == 2
\* update_frequency_(100), reinforcement_learning.cpp:116, scaled down
update_frequency_ == 2
\* epsilon_min_(0.01), reinforcement_learning.cpp:115, scaled up: 3/16
epsilon_min_ == 3
\* storeExperience calls followed between two clears of the buffer
MaxInserted == 3
\* getAction calls followed between two resets of total_steps_
MaxSteps == 2
\* startEpisode calls followed between two resets of total_episodes_
MaxEpisodes == 2
\* operations the threads sharing the engine call, all threads together
MaxCalls == 4
\* cycles of the decision loop followed
MaxCycles == 4
\* reportViolation calls followed between two shutdowns of the policy engine
MaxViolations == 2
\* transitions of a buffer larger than the scaled one whose rewards are averaged
MaxRewards == 3

(***************************************************************************)
(* Configuration: constructor arguments and initializer list               *)
(***************************************************************************)
\* ReinforcementLearningEngine(state_size, action_size, hidden_size, learning_rate)
state_size == 1
hidden_size == 1
action_size == 2
learning_rate == [num |-> 1, den |-> 1]
\* batch_size_(32), scaled down: a batch is two draws
batch_size_ == 2
\* epsilon_decay_(0.995), scaled to 1/2 so that the floor is within reach
epsilon_decay_ == [num |-> 1, den |-> 2]
\* gamma_(0.99)
gamma_ == [num |-> 99, den |-> 100]

VARIABLES
    q_network_,          \* live network: [alloc, w0, w1, b]
    target_network_,     \* target network: [alloc, w0, w1, b]
    replay_buffer_,      \* std::vector<Experience>
    epsilon_,            \* exploration rate, in 1/Unit
    steps_since_update_,
    total_steps_,
    total_episodes_,
    lastOp,              \* the public operation that ran last
    outcome,             \* how it ended: "ok", "throw" (std::invalid_argument), "crash"
    ret,                 \* what it returned
    pre,                 \* history: the buffer size, epsilon, counters and mode it started from
    mode,                \* Safety Controller state of spec 4.5 (history of the control calls)
    inserted,            \* history: the transitions stored since the buffer was last cleared
    getActionCalls,      \* history: getAction calls since total_steps_ was last reset
    mutex_,              \* std::mutex of the engine: the thread that holds it, or Free
    pc,                  \* where each calling thread is: "idle", "lock", "in", "out"
    entered,             \* history: the engine as the holder of mutex_ found it
    calls,               \* history: the operations the threads have called so far
    policies_,           \* CPPPolicyEngine: policy id -> [level, active]
    violations_,         \* CPPPolicyEngine: std::vector<PolicyViolation>
    enforcement_active_, \* CPPPolicyEngine
    running_,            \* EVACPPCore::running_
    shutdown_requested,  \* the flag the signal handler sets
    cycle_count,         \* local of EVACPPCore::start
    at,                  \* where main and EVACPPCore::start are
    gate,                \* history: what the policy check of this cycle answered
    faults,              \* history: exceptions thrown inside cycles so far
    rewards              \* the rewards getAverageReward sums when the buffer holds more
                         \* transitions than the scaled capacity allows

\* the callers of the engine when it is shared between threads
threadVars == <<mutex_, pc, entered, calls>>

\* the policy engine
policyVars == <<policies_, violations_, enforcement_active_>>

\* main and the decision loop of EVACPPCore
loopVars == <<running_, shutdown_requested, cycle_count, at, gate, faults>>

vars == <<q_network_, target_network_, replay_buffer_, epsilon_, steps_since_update_,
          total_steps_, total_episodes_, lastOp, outcome, ret, pre, mode,
          inserted, getActionCalls, threadVars, policyVars, loopVars, rewards>>

engine == <<q_network_, target_network_, replay_buffer_, epsilon_, steps_since_update_,
            total_steps_, total_episodes_>>

(***************************************************************************)
(* Arithmetic helpers                                                      *)
(***************************************************************************)
\* fixed-point product of two values in 1/Unit
Mul(a, b) == (a * b) \div Unit

RECURSIVE SumTo(_, _)
\* f[1] + ... + f[n], the accumulation loops of forward
SumTo(f, n) == IF n = 0 THEN 0 ELSE SumTo(f, n - 1) + f[n]

RECURSIVE MaxTo(_, _)
\* the largest of f[1..n], n >= 1
MaxTo(f, n) == IF n = 1 THEN f[1]
               ELSE LET m == MaxTo(f, n - 1) IN IF f[n] > m THEN f[n] ELSE m

\* std::max_element returning the last of several largest values
max_element_Last(q) == CHOOSE i \in 0..(Len(q) - 1) :
                          /\ q[i + 1] = MaxTo(q, Len(q))
                          /\ \A j \in (i + 1)..(Len(q) - 1) : q[j + 1] < q[i + 1]

\* std::max_element: the first position (0-based) holding the largest value
max_element(q) == CHOOSE i \in 0..(Len(q) - 1) :
                     /\ q[i + 1] = MaxTo(q, Len(q))
                     /\ \A j \in 0..(i - 1) : q[j + 1] < q[i + 1]

\* A double carries 53 significant bits, and a sum or quotient is the double nearest to
\* the exact result.  In the model every count of 1/Unit below Exact is a value of the
\* format, and from there on each doubling of the magnitude doubles the distance between
\* neighbouring values.
Exact == 2 * Unit

RECURSIVE Spacing(_)
\* the distance between neighbouring values at the magnitude of x >= 0
Spacing(x) == IF x < Exact THEN 1 ELSE 2 * Spacing(x \div 2)

\* x >= 0 is a value of the format
Representable(x) == x % Spacing(x) = 0

\* the value nearest to num / den (num >= 0, den > 0); of two equally near, the even one
Nearest(num, den) ==
    LET s == Spacing(num \div den)
        lo == ((num \div den) \div s) * s
        hi == lo + s
    IN  IF 2 * num < (lo + hi) * den THEN lo
        ELSE IF 2 * num > (lo + hi) * den THEN hi
        ELSE IF (lo \div s) % 2 = 0 THEN lo ELSE hi

\* a sum or quotient of doubles, as the double it is stored in (num is bound so that it
\* is evaluated once)
Double(num, den) ==
    CHOOSE d \in {IF n < 0 THEN 0 - Nearest(0 - n, den) ELSE Nearest(n, den) : n \in {num}} :
        TRUE

\* a clamp that forgets the upper bound
clamp_NoUpper(x, lo, hi) == IF x < lo THEN lo ELSE x

\* std::clamp(x, lo, hi)
clamp(x, lo, hi) == IF x < lo THEN lo ELSE IF hi < x THEN hi ELSE x

(***************************************************************************)
(* QNetwork                                                                *)
(***************************************************************************)
relu(x) == IF 0 < x THEN x ELSE 0

\* the check at the head of forward: throws std::invalid_argument
InputSizeMismatch(input) == Len(input) # state_size

\* forward, for an input of the configured width
forward(net, input) ==
    LET hidden == [h \in 1..hidden_size |->
                     relu(SumTo([i \in 1..state_size |->
                                   Mul(input[i], net.w0[(i - 1) * hidden_size + h])],
                                state_size)
                          + net.b[h])]
    IN  [o \in 1..action_size |->
           SumTo([h \in 1..hidden_size |->
                    Mul(hidden[h], net.w1[(h - 1) * action_size + o])],
                 hidden_size)
           + net.b[hidden_size + o]]

predict(net, state) == forward(net, state)

\* a backward pass that also moves the input-to-hidden weights and the biases
backward_AllLayers(net, input, target) ==
    LET prediction == forward(net, input)
        output_gradients == [i \in 1..action_size |->
            (learning_rate.num * 2 * (prediction[i] - target[i]))
                \div (learning_rate.den * action_size)]
    IN  [net EXCEPT !.w0 = [i \in 1..Len(net.w0) |-> net.w0[i] - output_gradients[1]],
                    !.w1 = [i \in 1..Len(net.w1) |->
                              net.w1[i] - output_gradients[((i - 1) % action_size) + 1]],
                    !.b = [i \in 1..Len(net.b) |-> net.b[i] - output_gradients[1]]]

\* backward: only weights_[1] moves, by learning_rate * 2 * (prediction - target) / output_size
backward(net, input, target) ==
    LET prediction == forward(net, input)
        output_gradients == [i \in 1..action_size |->
            (learning_rate.num * 2 * (prediction[i] - target[i]))
                \div (learning_rate.den * action_size)]
    IN  [net EXCEPT !.w1 = [i \in 1..Len(net.w1) |->
            net.w1[i] - output_gradients[((i - 1) % action_size) + 1]]]

\* train: the loss is computed and dropped, then backward
train(net, state, target) == backward(net, state, target)


(***************************************************************************)
(* Data model (reinforcement_learning.h)                                   *)
(***************************************************************************)
\* struct State: only features is ever read by the engine
State(feat) == [features |-> feat]

\* "action_" + std::to_string(idx)
ActionName(idx) == <<"action_0", "action_1", "action_2", "action_3">>[idx + 1]

\* struct Action: the constructor sets expected_reward to 0.0
Action(id, params) == [action_id |-> id, parameters |-> params, expected_reward |-> 0]

\* struct Experience; its timestamp is written once and never read
Experience(s, a, r, n, d) ==
    [state |-> s, action |-> a, reward |-> r, next_state |-> n, done |-> d]

\* a released std::unique_ptr<QNetwork>
NullNetwork == [alloc |-> FALSE, w0 |-> <<>>, w1 |-> <<>>, b |-> <<>>]

\* QNetwork::QNetwork: the weights are drawn at random, the biases are 0.0
QNetwork(w0, w1) ==
    [alloc |-> TRUE, w0 |-> w0, w1 |-> w1,
     b |-> [i \in 1..(hidden_size + action_size) |-> 0]]

Void == [kind |-> "void"]
Returned(v) == [kind |-> "value", value |-> v]

\* a returned bool, and a returned size_t or double, as records like a returned Action
Bool(v) == [bool |-> v]
Number(v) == [number |-> v]

(***************************************************************************)
(* Training protocol                                                       *)
(***************************************************************************)
\* a target vector whose next-state values come from the live network
TargetVector_LiveNext(q, t, experience) ==
    LET current_q_values == predict(q, experience.state.features)
        next_q_values == predict(q, experience.next_state.features)
        max_next_q == MaxTo(next_q_values, action_size)
        target_q == IF experience.done
                    THEN experience.reward
                    ELSE experience.reward + (gamma_.num * max_next_q) \div gamma_.den
        action_idx == experience.action.parameters[1]
    IN  IF action_idx < Len(current_q_values)
        THEN [current_q_values EXCEPT ![action_idx + 1] = target_q]
        ELSE current_q_values

\* the body of the loop of trainOnBatch up to the call of train: the target vector
TargetVector(q, t, experience) ==
    LET current_q_values == predict(q, experience.state.features)
        next_q_values == predict(t, experience.next_state.features)
        max_next_q == MaxTo(next_q_values, action_size)
        target_q == IF experience.done
                    THEN experience.reward
                    ELSE experience.reward + (gamma_.num * max_next_q) \div gamma_.den
        action_idx == experience.action.parameters[1]
    IN  IF action_idx < Len(current_q_values)
        THEN [current_q_values EXCEPT ![action_idx + 1] = target_q]
        ELSE current_q_values

\* one of the two predict calls of the loop body throws
PredictThrows(experience) ==
    \/ InputSizeMismatch(experience.state.features)
    \/ InputSizeMismatch(experience.next_state.features)

RECURSIVE trainFrom(_, _, _, _, _)
\* the loop of trainOnBatch from the k-th sampled index on; an exception leaves the
\* loop with the live network as trained so far
trainFrom(q, t, buffer, batch_indices, k) ==
    IF k > Len(batch_indices) THEN [net |-> q, threw |-> FALSE]
    ELSE LET experience == buffer[batch_indices[k] + 1]
         IN  IF PredictThrows(experience) THEN [net |-> q, threw |-> TRUE]
             ELSE trainFrom(train(q, experience.state.features,
                                  TargetVector(q, t, experience)),
                            t, buffer, batch_indices, k + 1)

trainOnBatch(q, t, buffer, batch_indices) == trainFrom(q, t, buffer, batch_indices, 1)

\* sampleBatch: batch_size_ indices, each uniform over the buffer, with replacement
sampleBatch(buffer) == [1..batch_size_ -> 0..(Len(buffer) - 1)]

\* updateTargetNetwork only prints: the target network it leaves
updateTargetNetwork(q, t) == t

\* the decay guarded the wrong way round
DecayedEpsilon_Inverted(eps) ==
    IF eps < epsilon_min_ THEN (eps * epsilon_decay_.num) \div epsilon_decay_.den ELSE eps

\* the decay at the end of learn
DecayedEpsilon(eps) ==
    IF eps > epsilon_min_ THEN (eps * epsilon_decay_.num) \div epsilon_decay_.den ELSE eps

(***************************************************************************)
(* ReinforcementLearningEngine: the public operations                      *)
(***************************************************************************)
\* the scalars of the engine, as a call finds them
Snapshot ==
    [size |-> Len(replay_buffer_), epsilon |-> epsilon_,
     steps_since_update |-> steps_since_update_, total_steps |-> total_steps_,
     total_episodes |-> total_episodes_, mode |-> mode]

\* what a call records of itself
Call(op, how, value) ==
    lastOp' = op /\ outcome' = how /\ ret' = value /\ pre' = Snapshot

\* a member call through a released unique_ptr: the process is lost
NullDereference(op) == Call(op, "crash", Void)

initialize ==
    IF ~q_network_.alloc \/ ~target_network_.alloc
    THEN /\ Call("initialize", "ok", Returned(Bool(FALSE)))
         /\ UNCHANGED <<engine, mode, inserted, getActionCalls>>
    ELSE /\ Call("initialize", "ok", Returned(Bool(TRUE)))
         /\ replay_buffer_' = <<>>
         /\ total_steps_' = 0
         /\ total_episodes_' = 0
         /\ steps_since_update_' = 0
         /\ inserted' = <<>>
         /\ getActionCalls' = 0
         /\ UNCHANGED <<q_network_, target_network_, epsilon_, mode>>

\* uniform_int_distribution<int>(0, 3)
selectRandomAction == {Action(ActionName(action_idx), <<action_idx>>) : action_idx \in 0..3}

\* for a live network and a state of the configured width
selectBestAction(state) ==
    LET q_values == predict(q_network_, state.features)
        best_action_idx == max_element(q_values)
    IN  [Action(ActionName(best_action_idx), <<best_action_idx>>)
            EXCEPT !.expected_reward = q_values[best_action_idx + 1]]

\* getAction counting the step on the random branch only
getAction_CountsRandomOnly(state) ==
    /\ getActionCalls' = getActionCalls + 1
    /\ \/ /\ 0 < epsilon_
          /\ total_steps_' = total_steps_ + 1
          /\ \E a \in {Action(ActionName(i), <<i>>) : i \in 0..3} :
                Call("getAction", "ok", Returned(a))
       \/ /\ epsilon_ < Unit
          /\ total_steps_' = total_steps_
          /\ Call("getAction", "throw", Void)
    /\ UNCHANGED <<q_network_, target_network_, replay_buffer_, epsilon_,
                   steps_since_update_, total_episodes_, mode, inserted>>

\* dist(rng_) is uniform over [0, 1): the random branch needs epsilon_ > 0, the greedy
\* branch epsilon_ < 1
getAction(state) ==
    /\ total_steps_' = total_steps_ + 1
    /\ getActionCalls' = getActionCalls + 1
    /\ \/ /\ 0 < epsilon_
          /\ \E a \in selectRandomAction : Call("getAction", "ok", Returned(a))
       \/ /\ epsilon_ < Unit
          /\ IF ~q_network_.alloc THEN NullDereference("getAction")
             ELSE IF InputSizeMismatch(state.features)
                  THEN Call("getAction", "throw", Void)
                  ELSE Call("getAction", "ok", Returned(selectBestAction(state)))
    /\ UNCHANGED <<q_network_, target_network_, replay_buffer_, epsilon_,
                   steps_since_update_, total_episodes_, mode, inserted>>

\* storeExperience evicting one transition too late
storeExperience_EvictsLate(state, action, reward, next_state, done) ==
    LET experience == Experience(state, action, reward, next_state, done)
    IN  /\ Call("storeExperience", "ok", Void)
        /\ replay_buffer_' =
              (IF Len(replay_buffer_) > buffer_capacity_
               THEN Tail(replay_buffer_) ELSE replay_buffer_) \o <<experience>>
        /\ inserted' = Append(inserted, experience)
        /\ UNCHANGED <<q_network_, target_network_, epsilon_, steps_since_update_,
                       total_steps_, total_episodes_, mode, getActionCalls>>

storeExperience(state, action, reward, next_state, done) ==
    LET experience == Experience(state, action, reward, next_state, done)
    IN  /\ Call("storeExperience", "ok", Void)
        /\ replay_buffer_' =
              (IF Len(replay_buffer_) >= buffer_capacity_
               THEN Tail(replay_buffer_) ELSE replay_buffer_) \o <<experience>>
        /\ inserted' = Append(inserted, experience)
        /\ UNCHANGED <<q_network_, target_network_, epsilon_, steps_since_update_,
                       total_steps_, total_episodes_, mode, getActionCalls>>

\* a sync that waits for the counter to pass update_frequency_
TargetSyncDue_Late(steps_since_update) == steps_since_update > update_frequency_

\* the test of learn on the counter it has just incremented
TargetSyncDue(steps_since_update) == steps_since_update >= update_frequency_

\* an early return that only looks for an empty buffer
NotEnoughExperiences_OnlyEmpty == replay_buffer_ = <<>>

\* the early return of learn
NotEnoughExperiences == Len(replay_buffer_) < batch_size_

learn ==
    /\ UNCHANGED <<replay_buffer_, total_steps_, total_episodes_, mode, inserted,
                   getActionCalls>>
    /\ IF NotEnoughExperiences
       THEN /\ Call("learn", "ok", Void)
            /\ UNCHANGED <<q_network_, target_network_, epsilon_, steps_since_update_>>
       ELSE IF ~q_network_.alloc
       THEN /\ NullDereference("learn")
            /\ UNCHANGED <<q_network_, target_network_, epsilon_, steps_since_update_>>
       ELSE \E trained \in {trainOnBatch(q_network_, target_network_, replay_buffer_,
                                          batch_indices) :
                                batch_indices \in sampleBatch(replay_buffer_)} :
                  /\ q_network_' = trained.net
                  /\ IF trained.threw
                     THEN /\ Call("learn", "throw", Void)
                          /\ UNCHANGED <<target_network_, epsilon_, steps_since_update_>>
                     ELSE /\ Call("learn", "ok", Void)
                          /\ IF TargetSyncDue(steps_since_update_ + 1)
                             THEN /\ target_network_' =
                                        updateTargetNetwork(trained.net, target_network_)
                                  /\ steps_since_update_' = 0
                             ELSE /\ steps_since_update_' = steps_since_update_ + 1
                                  /\ UNCHANGED target_network_
                          /\ epsilon_' = DecayedEpsilon(epsilon_)

startEpisode ==
    /\ Call("startEpisode", "ok", Void)
    /\ total_episodes_' = total_episodes_ + 1
    /\ UNCHANGED <<q_network_, target_network_, replay_buffer_, epsilon_,
                   steps_since_update_, total_steps_, mode, inserted, getActionCalls>>

\* endEpisode counting the episode a second time
endEpisode_Counts ==
    /\ Call("endEpisode", "ok", Void)
    /\ total_episodes_' = total_episodes_ + 1
    /\ UNCHANGED <<q_network_, target_network_, replay_buffer_, epsilon_,
                   steps_since_update_, total_steps_, mode, inserted, getActionCalls>>

endEpisode ==
    /\ Call("endEpisode", "ok", Void)
    /\ UNCHANGED <<engine, mode, inserted, getActionCalls>>

RECURSIVE total_reward(_, _)
\* the loop of getAverageReward: total_reward after the first n rewards
total_reward(stored, n) ==
    IF n = 0 THEN 0 ELSE Double(total_reward(stored, n - 1) + stored[n], 1)

\* a mean over the capacity of the buffer instead of its size
AverageReward_OverCapacity(stored) ==
    IF stored = <<>> THEN 0
    ELSE Double(total_reward(stored, Len(stored)), buffer_capacity_)

\* getAverageReward for a buffer whose transitions carry these rewards, in this order
AverageReward(stored) ==
    IF stored = <<>> THEN 0
    ELSE Double(total_reward(stored, Len(stored)), Len(stored))

getAverageReward ==
    AverageReward([i \in 1..Len(replay_buffer_) |-> replay_buffer_[i].reward])

getTotalSteps == total_steps_

getTotalEpisodes == total_episodes_

getCurrentExplorationRate == epsilon_

setExplorationRate(epsilon) ==
    /\ Call("setExplorationRate", "ok", Void)
    /\ epsilon_' = clamp(epsilon, 0, Unit)
    /\ UNCHANGED <<q_network_, target_network_, replay_buffer_, steps_since_update_,
                   total_steps_, total_episodes_, mode, inserted, getActionCalls>>

\* emergencyStop leaving epsilon as it is
emergencyStop_KeepsEpsilon ==
    /\ Call("emergencyStop", "ok", Void)
    /\ replay_buffer_' = <<>>
    /\ mode' = "Stopped"
    /\ inserted' = <<>>
    /\ UNCHANGED <<q_network_, target_network_, epsilon_, steps_since_update_,
                   total_steps_, total_episodes_, getActionCalls>>

emergencyStop ==
    /\ Call("emergencyStop", "ok", Void)
    /\ replay_buffer_' = <<>>
    /\ epsilon_' = Unit
    /\ mode' = "Stopped"
    /\ inserted' = <<>>
    /\ UNCHANGED <<q_network_, target_network_, steps_since_update_, total_steps_,
                   total_episodes_, getActionCalls>>

\* resetLearning forgetting the episode counter
resetLearning_KeepsEpisodes ==
    /\ Call("resetLearning", "ok", Void)
    /\ replay_buffer_' = <<>>
    /\ total_steps_' = 0
    /\ steps_since_update_' = 0
    /\ epsilon_' = Unit
    /\ mode' = "Running"
    /\ inserted' = <<>>
    /\ getActionCalls' = 0
    /\ UNCHANGED <<q_network_, target_network_, total_episodes_>>

resetLearning ==
    /\ Call("resetLearning", "ok", Void)
    /\ replay_buffer_' = <<>>
    /\ total_steps_' = 0
    /\ total_episodes_' = 0
    /\ steps_since_update_' = 0
    /\ epsilon_' = Unit
    /\ mode' = "Running"
    /\ inserted' = <<>>
    /\ getActionCalls' = 0
    /\ UNCHANGED <<q_network_, target_network_>>

shutdown ==
    /\ Call("shutdown", "ok", Void)
    /\ replay_buffer_' = <<>>
    /\ q_network_' = NullNetwork
    /\ target_network_' = NullNetwork
    /\ inserted' = <<>>
    /\ UNCHANGED <<epsilon_, steps_since_update_, total_steps_, total_episodes_, mode,
                   getActionCalls>>

\* declared in reinforcement_learning.h and defined nowhere: the transitions of spec 4.5
pauseLearning ==
    /\ Call("pauseLearning", "ok", Void)
    /\ mode' = IF mode = "Running" THEN "Paused" ELSE mode
    /\ UNCHANGED <<engine, inserted, getActionCalls>>

resumeLearning ==
    /\ Call("resumeLearning", "ok", Void)
    /\ mode' = IF mode = "Paused" THEN "Running" ELSE mode
    /\ UNCHANGED <<engine, inserted, getActionCalls>>

(***************************************************************************)
(* Callers                                                                 *)
(***************************************************************************)
\* the threads that share the engine: the decision loop and a monitoring caller
Threads == {"decision", "monitor"}

\* mutex_ held by no thread
Free == "free"

\* the ids of loadCorePolicies, the id a caller gives to a policy of its own, and both
CorePolicyIds == {"cpp_safety_001", "cpp_performance_001", "cpp_ethics_001"}
UserPolicyIds == {"test_policy_001"}
PolicyIds == CorePolicyIds \cup UserPolicyIds

\* an id that policies_ does not hold
NoPolicy == [present |-> FALSE, level |-> "LOW", active |-> FALSE]

\* a state of the configured width, and one that is too narrow
GoodState == State([i \in 1..state_size |-> Unit])
NarrowState == State([i \in 1..(state_size - 1) |-> Unit])
States == {GoodState, NarrowState}

\* the transitions callers store: two of the configured width, and one built from
\* states that are too narrow
ValidExperience == Experience(GoodState, Action(ActionName(0), <<0>>), Unit, GoodState, FALSE)
NarrowExperience == Experience(NarrowState, Action(ActionName(1), <<1>>), 0, NarrowState, FALSE)
ValidExperiences == {ValidExperience}
Experiences == {ValidExperience, NarrowExperience}

\* arguments of setExplorationRate: below, inside and above [0, 1]
Rates == {0 - Unit, Unit \div 2, 2 * Unit}

\* one draw of each QNetwork constructor: the live and the target weights differ
InitialLive ==
    QNetwork([i \in 1..(state_size * hidden_size) |-> Unit],
             [i \in 1..(hidden_size * action_size) |-> 0])
InitialTarget ==
    QNetwork([i \in 1..(state_size * hidden_size) |-> Unit],
             [i \in 1..(hidden_size * action_size) |-> Unit \div 2])

\* both engines as their constructors leave them, main before its first call
Constructed ==
    /\ q_network_ = InitialLive
    /\ target_network_ = InitialTarget
    /\ replay_buffer_ = <<>>
    /\ epsilon_ = Unit
    /\ steps_since_update_ = 0
    /\ total_steps_ = 0
    /\ total_episodes_ = 0
    /\ lastOp = "construct"
    /\ outcome = "ok"
    /\ ret = Void
    /\ pre = [size |-> 0, epsilon |-> Unit, steps_since_update |-> 0, total_steps |-> 0,
              total_episodes |-> 0, mode |-> "Running"]
    /\ mode = "Running"
    /\ inserted = <<>>
    /\ getActionCalls = 0
    /\ mutex_ = Free
    /\ pc = [t \in Threads |-> "idle"]
    /\ entered = <<>>
    /\ calls = 0
    /\ policies_ = [id \in PolicyIds |-> NoPolicy]
    /\ violations_ = <<>>
    /\ enforcement_active_ = TRUE
    /\ running_ = FALSE
    /\ shutdown_requested = FALSE
    /\ cycle_count = 0
    /\ at = "constructed"
    /\ gate = "unchecked"
    /\ faults = 0

Init == Constructed /\ rewards = <<>>

StoreSome(stored) ==
    /\ Len(inserted) < MaxInserted
    /\ \E e \in stored :
          storeExperience(e.state, e.action, e.reward, e.next_state, e.done)

ActSome ==
    /\ total_steps_ < MaxSteps
    /\ \E s \in States : getAction(s)

StartSome ==
    /\ total_episodes_ < MaxEpisodes
    /\ startEpisode

SetSome == \E r \in Rates : setExplorationRate(r)

\* a crashed process makes no further call
Alive == outcome # "crash"

\* a call made by the only caller of the engine
Sequential == Alive /\ UNCHANGED <<threadVars, policyVars, loopVars, rewards>>

\* every operation the code defines, storing transitions of the configured width
Next ==
    \/ Sequential /\ initialize
    \/ Sequential /\ ActSome
    \/ Sequential /\ StoreSome(ValidExperiences)
    \/ Sequential /\ learn
    \/ Sequential /\ StartSome
    \/ Sequential /\ endEpisode
    \/ Sequential /\ SetSome
    \/ Sequential /\ emergencyStop
    \/ Sequential /\ resetLearning
    \/ Sequential /\ shutdown

Spec == Init /\ [][Next]_vars

\* the engine with the two control operations of spec 4.5 added
NextControl ==
    \/ Next
    \/ Sequential /\ pauseLearning
    \/ Sequential /\ resumeLearning

SpecControl == Init /\ [][NextControl]_vars

\* construction followed by storeExperience, getAction and learn only, storing
\* transitions of either width
NextCore ==
    \/ Sequential /\ ActSome
    \/ Sequential /\ StoreSome(Experiences)
    \/ Sequential /\ learn

SpecCore == Init /\ [][NextCore]_vars

\* the operations that never clear the buffer, storing transitions of either width
NextStore ==
    \/ NextCore
    \/ Sequential /\ StartSome
    \/ Sequential /\ endEpisode
    \/ Sequential /\ SetSome

SpecStore == Init /\ [][NextStore]_vars

(***************************************************************************)
(* Experience Store                                                        *)
(***************************************************************************)
\* the last n elements of s
LastN(s, n) == SubSeq(s, Len(s) - n + 1, Len(s))

\* C1: the buffer never holds more than buffer_capacity_ transitions, and it holds
\* exactly the most recent min(n, buffer_capacity_) of the n transitions stored since it
\* was last cleared, in the order they were stored.
C1_BufferHoldsMostRecent ==
    /\ Len(replay_buffer_) <= buffer_capacity_
    /\ replay_buffer_ =
          LastN(inserted, IF Len(inserted) < buffer_capacity_
                          THEN Len(inserted) ELSE buffer_capacity_)

\* a store that evicted a transition different from the one it stored
C1_Evicted ==
    /\ lastOp = "storeExperience"
    /\ Len(inserted) > buffer_capacity_
    /\ inserted[1] # inserted[Len(inserted)]
    /\ Len(replay_buffer_) = buffer_capacity_

(***************************************************************************)
(* Safety control                                                          *)
(***************************************************************************)
\* C2: in the state emergencyStop returns in, the buffer is empty and epsilon is 1.0.
C2_EmergencyStopClears ==
    lastOp = "emergencyStop" => (replay_buffer_ = <<>> /\ epsilon_ = Unit)

\* an emergencyStop that found a filled buffer and a lowered epsilon
C2_StoppedFromUse ==
    /\ lastOp = "emergencyStop"
    /\ pre.size > 0
    /\ pre.epsilon < Unit

\* what a learn call that is a no-op leaves alone
LearnChangesNothing ==
    /\ q_network_' = q_network_
    /\ epsilon_' = epsilon_
    /\ steps_since_update_' = steps_since_update_

\* C3: between emergencyStop and the next resetLearning every learn call leaves the live
\* weights, epsilon and the since-last-sync counter as they were.
C3_StoppedLearnIsNoop ==
    [][(mode = "Stopped" /\ lastOp' = "learn") => LearnChangesNothing]_vars

\* C4: pauseLearning takes Running to Paused; while Paused learn changes nothing and
\* getAction still returns an action, at the frozen epsilon; resumeLearning takes Paused
\* back to Running.
C4_PausedLearnIsNoop ==
    [][/\ (mode = "Running" /\ lastOp' = "pauseLearning") => mode' = "Paused"
       /\ (mode = "Paused" /\ lastOp' = "learn") => LearnChangesNothing
       /\ (mode = "Paused" /\ lastOp' = "getAction" /\ outcome' = "ok")
             => (ret'.kind = "value" /\ epsilon_' = epsilon_)
       /\ (mode = "Paused" /\ lastOp' = "resumeLearning") => mode' = "Running"]_vars

\* C5: resetLearning leaves an empty buffer, the three counters at 0 and epsilon at 1.0,
\* and leaves the live and the target weights as they were.
C5_ResetLearning ==
    [][lastOp' = "resetLearning" =>
          /\ replay_buffer_' = <<>>
          /\ total_steps_' = 0
          /\ total_episodes_' = 0
          /\ steps_since_update_' = 0
          /\ epsilon_' = Unit
          /\ q_network_' = q_network_
          /\ target_network_' = target_network_]_vars

\* a resetLearning after an emergencyStop, with every counter raised before it and
\* trained live weights kept by it
C5_ResetAfterStop ==
    /\ lastOp = "resetLearning"
    /\ pre.mode = "Stopped"
    /\ pre.total_steps > 0
    /\ pre.total_episodes > 0
    /\ pre.steps_since_update > 0
    /\ q_network_ # InitialLive

(***************************************************************************)
(* Exploration schedule                                                    *)
(***************************************************************************)
\* C6: after construction and any storeExperience, getAction and learn calls,
\* epsilon is at least epsilon_min_.
C6_EpsilonAtLeastFloor == epsilon_ >= epsilon_min_

\* epsilon multiplied by the decay factor
TimesDecay(eps) == (eps * epsilon_decay_.num) \div epsilon_decay_.den

\* C7 as stated: every learn call made with a full batch stored leaves epsilon no
\* larger, and strictly smaller (times the decay factor) when it was above the floor.
C7_EveryFullBatchLearnDecays ==
    [][(lastOp' = "learn" /\ Len(replay_buffer_) >= batch_size_) =>
          /\ epsilon_' <= epsilon_
          /\ epsilon_ > epsilon_min_ =>
                (epsilon_' = TimesDecay(epsilon_) /\ epsilon_' < epsilon_)]_vars

\* C7 amended: every learn call made with a full batch stored leaves epsilon no larger;
\* one that returns normally leaves it strictly smaller (times the decay factor) when it
\* was above the floor, so from 1.0 it is below 1.0; one that raises leaves it as it was.
C7_CompletedLearnDecays ==
    [][(lastOp' = "learn" /\ Len(replay_buffer_) >= batch_size_) =>
          /\ epsilon_' <= epsilon_
          /\ (outcome' = "ok" /\ epsilon_ > epsilon_min_) =>
                (epsilon_' = TimesDecay(epsilon_) /\ epsilon_' < epsilon_)
          /\ (outcome' = "ok" /\ epsilon_ = Unit) => epsilon_' < Unit
          /\ outcome' # "ok" => epsilon_' = epsilon_]_vars

\* the first learn that trains, from epsilon 1.0
C7_FirstDecay ==
    /\ lastOp = "learn"
    /\ outcome = "ok"
    /\ pre.size >= batch_size_
    /\ pre.epsilon = Unit
    /\ epsilon_ < Unit

\* the operations C8 allows to raise epsilon
Resetting == {"resetLearning", "emergencyStop"}

\* C8 as stated: epsilon stays in [0, 1], and only resetLearning and emergencyStop
\* leave it larger than they found it.
C8_OnlyResetsRaiseEpsilon ==
    [][/\ epsilon_ \in 0..Unit
       /\ epsilon_' \in 0..Unit
       /\ epsilon_' > epsilon_ => lastOp' \in Resetting]_vars

\* C8 amended: epsilon stays in [0, 1], and only resetLearning, emergencyStop and
\* setExplorationRate leave it larger than they found it.
C8_OnlyResetsAndSetterRaiseEpsilon ==
    [][/\ epsilon_ \in 0..Unit
       /\ epsilon_' \in 0..Unit
       /\ epsilon_' > epsilon_ => lastOp' \in Resetting \cup {"setExplorationRate"}]_vars

\* a setExplorationRate that raised a decayed epsilon
C8_SetterRaised ==
    /\ lastOp = "setExplorationRate"
    /\ pre.epsilon < epsilon_
    /\ pre.epsilon > 0

(***************************************************************************)
(* Training protocol and counters                                          *)
(***************************************************************************)
\* C9: learn called with fewer than batch_size_ transitions stored returns normally and
\* leaves both networks, epsilon, the three counters and the buffer unchanged.
C9_ShortBufferLearnIsNoop ==
    [][(lastOp' = "learn" /\ Len(replay_buffer_) < batch_size_) =>
          (outcome' = "ok" /\ UNCHANGED engine)]_vars

\* a learn that found a buffer neither empty nor holding a batch
C9_LearnOnShortBuffer ==
    /\ lastOp = "learn"
    /\ outcome = "ok"
    /\ 0 < pre.size
    /\ pre.size < batch_size_
    /\ Len(replay_buffer_) = pre.size

\* the operations that reset total_steps_
ResetsTotalSteps == {"resetLearning", "initialize"}

NextExperienceStorageTest ==
    \/ Sequential /\ lastOp = "construct" /\ initialize
    \/ Sequential /\ lastOp # "construct" /\ StoreSome(Experiences)
    \/ Sequential /\ lastOp # "construct" /\ learn

SpecExperienceStorageTest == Init /\ [][NextExperienceStorageTest]_vars

\* C11: after initialize, a storeExperience and then a learn, with no getAction call
\* made, getTotalSteps() is greater than 0.
C11_StoreThenLearnCountsSteps ==
    (lastOp = "learn" /\ inserted # <<>>) => getTotalSteps > 0

(***************************************************************************)
(* Target network synchronisation                                          *)
(***************************************************************************)
\* the weights and biases of two networks are the same
SameWeights(a, b) == a.w0 = b.w0 /\ a.w1 = b.w1 /\ a.b = b.b

\* C12: every learn call that trains adds one to the since-last-sync counter; the call
\* in which the counter reaches update_frequency_ sets it back to 0 and leaves the target
\* weights equal to the live weights.
C12_SyncCopiesLiveIntoTarget ==
    [][(lastOp' = "learn" /\ outcome' = "ok" /\ Len(replay_buffer_) >= batch_size_) =>
          IF steps_since_update_ + 1 >= update_frequency_
          THEN steps_since_update_' = 0 /\ SameWeights(target_network_', q_network_')
          ELSE steps_since_update_' = steps_since_update_ + 1]_vars

(***************************************************************************)
(* Lifecycle                                                               *)
(***************************************************************************)
\* the operations C13 says clear the buffer and the counters
Clearing == {"resetLearning", "emergencyStop", "shutdown"}

\* C13: in the state resetLearning, emergencyStop or shutdown returns in, the buffer is
\* empty and total_steps_, total_episodes_ and steps_since_update_ are all 0.
C13_ClearingOpsZeroCounters ==
    lastOp \in Clearing =>
        /\ replay_buffer_ = <<>>
        /\ total_steps_ = 0
        /\ total_episodes_ = 0
        /\ steps_since_update_ = 0

(***************************************************************************)
(* Action selection                                                        *)
(***************************************************************************)
\* C16: every action getAction returns, on the random and on the greedy branch, has its
\* index parameters[0] in 0 .. action_size - 1.
C16_ReturnedActionInActionSet ==
    (lastOp = "getAction" /\ outcome = "ok") =>
        ret.value.parameters[1] \in 0..(action_size - 1)


\* the live network's values for the one state of the configured width
GreedyValues == predict(q_network_, GoodState.features)

\* the operations that replace or release the live network
ChangesLiveNetwork == {"learn", "shutdown"}

\* C20: with epsilon at 0.0 every getAction that returns took the greedy branch: its
\* action is the lowest index holding the largest value of the live network for the
\* state, annotated with that value; two calls in a row return the same action; and no
\* operation but learn (and shutdown, which releases the network) changes the live
\* weights, so the action stays the same for as long as no learn intervenes.
C20_GreedyIsDeterministic ==
    [][/\ (epsilon_ = 0 /\ lastOp' = "getAction" /\ outcome' = "ok") =>
             LET chosen == ret'.value.parameters[1]
             IN  /\ chosen \in 0..(action_size - 1)
                 /\ GreedyValues[chosen + 1] = MaxTo(GreedyValues, action_size)
                 /\ \A lower \in 0..(chosen - 1) :
                       GreedyValues[lower + 1] < GreedyValues[chosen + 1]
                 /\ ret'.value.expected_reward = GreedyValues[chosen + 1]
                 /\ ret'.value.action_id = ActionName(chosen)
       /\ (/\ lastOp = "getAction" /\ outcome = "ok" /\ pre.epsilon = 0
           /\ epsilon_ = 0 /\ lastOp' = "getAction" /\ outcome' = "ok") => ret' = ret
       /\ lastOp' \notin ChangesLiveNetwork => q_network_' = q_network_]_vars

\* a second greedy getAction in a row, on values that tie
C20_RepeatedGreedyOnTie ==
    /\ lastOp = "getAction"
    /\ outcome = "ok"
    /\ pre.epsilon = 0
    /\ epsilon_ = 0
    /\ pre.total_steps = 1
    /\ q_network_.alloc
    /\ GreedyValues[1] = GreedyValues[2]
    /\ ret.value.parameters = <<0>>

(***************************************************************************)
(* The engine shared between threads: every public operation starts with   *)
(* std::lock_guard<std::mutex> lock(mutex_) and holds it to its last       *)
(* statement; the private helpers it calls take no lock.                   *)
(***************************************************************************)
\* the four getters: each returns one value and writes nothing
ReadSome ==
    /\ \E read \in {<<"getAverageReward", getAverageReward>>,
                    <<"getTotalSteps", getTotalSteps>>,
                    <<"getTotalEpisodes", getTotalEpisodes>>,
                    <<"getCurrentExplorationRate", getCurrentExplorationRate>>} :
          Call(read[1], "ok", Returned(Number(read[2])))
    /\ UNCHANGED <<engine, mode, inserted, getActionCalls>>

\* thread t calls a public operation: it arrives at the lock_guard
Enter(t) ==
    /\ Alive
    /\ pc[t] = "idle"
    /\ calls < MaxCalls
    /\ calls' = calls + 1
    /\ pc' = [pc EXCEPT ![t] = "lock"]
    /\ UNCHANGED <<engine, lastOp, outcome, ret, pre, mode, inserted, getActionCalls,
                   mutex_, entered, policyVars, loopVars, rewards>>

\* a lock_guard that does not wait for the mutex
lock_guard_NoWait(t) ==
    /\ Alive
    /\ pc[t] = "lock"
    /\ mutex_' = t
    /\ pc' = [pc EXCEPT ![t] = "in"]
    /\ entered' = engine
    /\ UNCHANGED <<calls, policyVars, loopVars, rewards>>
    /\ UNCHANGED <<engine, lastOp, outcome, ret, pre, mode, inserted, getActionCalls>>

\* std::lock_guard's constructor: mutex_.lock() returns once no thread holds the mutex
lock_guard(t) ==
    /\ Alive
    /\ pc[t] = "lock"
    /\ mutex_ = Free
    /\ mutex_' = t
    /\ pc' = [pc EXCEPT ![t] = "in"]
    /\ entered' = engine
    /\ UNCHANGED <<calls, policyVars, loopVars, rewards>>
    /\ UNCHANGED <<engine, lastOp, outcome, ret, pre, mode, inserted, getActionCalls>>

\* thread t runs the statements of its operation after the lock_guard, up to the
\* return or the exception
Inside(t) ==
    /\ Alive
    /\ pc[t] = "in"
    /\ pc' = [pc EXCEPT ![t] = "out"]
    /\ UNCHANGED <<mutex_, entered, calls, policyVars, loopVars, rewards>>

\* a destructor that returns without unlocking
unlock_Forgotten(t) ==
    /\ Alive
    /\ pc[t] = "out"
    /\ mutex_' = mutex_
    /\ pc' = [pc EXCEPT ![t] = "idle"]
    /\ entered' = <<>>
    /\ UNCHANGED <<calls, policyVars, loopVars, rewards>>
    /\ UNCHANGED <<engine, lastOp, outcome, ret, pre, mode, inserted, getActionCalls>>

\* a destructor that leaves the mutex locked when the operation ends in an exception
unlock_NotOnThrow(t) ==
    /\ Alive
    /\ pc[t] = "out"
    /\ mutex_' = IF outcome = "throw" THEN mutex_ ELSE Free
    /\ pc' = [pc EXCEPT ![t] = "idle"]
    /\ entered' = <<>>
    /\ UNCHANGED <<calls, policyVars, loopVars, rewards>>
    /\ UNCHANGED <<engine, lastOp, outcome, ret, pre, mode, inserted, getActionCalls>>

\* std::lock_guard's destructor, run at the return and when an exception unwinds the
\* operation: mutex_.unlock()
unlock(t) ==
    /\ Alive
    /\ pc[t] = "out"
    /\ mutex_' = Free
    /\ pc' = [pc EXCEPT ![t] = "idle"]
    /\ entered' = <<>>
    /\ UNCHANGED <<calls, policyVars, loopVars, rewards>>
    /\ UNCHANGED <<engine, lastOp, outcome, ret, pre, mode, inserted, getActionCalls>>

\* the operation a thread runs once it holds the mutex
Body(t) ==
    Inside(t) /\ (\/ initialize \/ ActSome \/ StoreSome(Experiences) \/ learn
                  \/ StartSome \/ endEpisode \/ SetSome \/ ReadSome
                  \/ emergencyStop \/ resetLearning \/ shutdown)

NextThreads ==
    \/ \E t \in Threads : Enter(t)
    \/ \E t \in Threads : lock_guard(t)
    \/ \E t \in Threads : Inside(t) /\ initialize
    \/ \E t \in Threads : Inside(t) /\ ActSome
    \/ \E t \in Threads : Inside(t) /\ StoreSome(Experiences)
    \/ \E t \in Threads : Inside(t) /\ learn
    \/ \E t \in Threads : Inside(t) /\ StartSome
    \/ \E t \in Threads : Inside(t) /\ endEpisode
    \/ \E t \in Threads : Inside(t) /\ SetSome
    \/ \E t \in Threads : Inside(t) /\ ReadSome
    \/ \E t \in Threads : Inside(t) /\ emergencyStop
    \/ \E t \in Threads : Inside(t) /\ resetLearning
    \/ \E t \in Threads : Inside(t) /\ shutdown
    \/ \E t \in Threads : unlock(t)

SpecThreads == Init /\ [][NextThreads]_vars


\* scheduling: a thread inside an operation goes on to its end, and a thread waiting
\* for a mutex that is free again and again gets it (fair scheduling of the waiters)
FairThreads ==
    \A t \in Threads :
        /\ WF_vars(Body(t))
        /\ WF_vars(unlock(t))
        /\ SF_vars(lock_guard(t))

SpecThreadsFair == SpecThreads /\ FairThreads

\* thread t is between its lock_guard and the unlock
InSection(t) == pc[t] \in {"in", "out"}

\* at most one thread is in the section, and it is the one that holds the mutex
MutualExclusion ==
    /\ \A t, u \in Threads : (InSection(t) /\ InSection(u)) => t = u
    /\ \A t \in Threads : InSection(t) <=> mutex_ = t

\* a thread about to run its operation finds the engine as it was when it took the mutex
Isolation == \A t \in Threads : pc[t] = "in" => entered = engine

\* C14: at most one thread at a time is between the lock_guard and the unlock of a public
\* operation; no thread changes the engine between the moment another took the mutex and
\* the moment it ran its operation; and the buffer, weights, epsilon and counters change
\* only in the step in which the holder of the mutex runs one whole operation - so the
\* operations take effect one at a time, in the order the mutex was taken.
C14_EngineIsMonitor ==
    /\ [](MutualExclusion /\ Isolation)
    /\ [][engine' # engine =>
             \E t \in Threads : mutex_ = t /\ pc[t] = "in" /\ pc'[t] = "out"]_vars

\* one thread has changed the engine and still holds the mutex, the other waits for it
C14_WriterHoldsWhileOtherWaits ==
    /\ pc["decision"] = "out"
    /\ mutex_ = "decision"
    /\ pc["monitor"] = "lock"
    /\ engine # entered

\* while a thread waits, the mutex is free or held by a thread that is running and not
\* itself waiting
NoDeadlock ==
    (Alive /\ \E t \in Threads : pc[t] = "lock") =>
        \/ mutex_ = Free
        \/ \E u \in Threads : mutex_ = u /\ InSection(u)

\* C15: under fair scheduling every thread that has called a public operation returns
\* from it - it gets the mutex, finishes its operation and releases the mutex (unless the
\* process is lost to a call through a network that shutdown released); the callers
\* never deadlock.
C15_EveryCallReturns ==
    /\ []NoDeadlock
    /\ \A t \in Threads : (pc[t] # "idle") ~> (pc[t] = "idle" \/ ~Alive)

\* a thread waits at its lock_guard while the other is inside an operation
C15_WaitsForHolder ==
    /\ pc["monitor"] = "lock"
    /\ pc["decision"] = "in"
    /\ mutex_ = "decision"
    /\ calls = MaxCalls

\* a getAction or a learn has just ended in std::invalid_argument
Mismatch == outcome = "throw" /\ lastOp \in {"getAction", "learn"}

\* C17: when getAction or learn ends in a dimension mismatch its thread releases the
\* mutex, and from then on every thread that calls an operation still gets the mutex and
\* returns from the operation (unless the process is lost to a call through a network
\* that shutdown released).
C17_MismatchLeavesEngineUsable ==
    /\ \A t \in Threads : (Mismatch /\ pc[t] = "out") ~> (mutex_ # t)
    /\ [](Mismatch =>
            \A t \in Threads : [](pc[t] = "lock" => <>(pc[t] = "idle" \/ ~Alive)))

\* after learn ended in a mismatch another thread has taken the mutex
C17_LockedAfterMismatch ==
    /\ Mismatch
    /\ lastOp = "learn"
    /\ pc["monitor"] = "in"
    /\ pc["decision"] = "idle"

(***************************************************************************)
(* CPPPolicyEngine (policy_engine.cpp)                                     *)
(***************************************************************************)
\* struct Policy: its constructor sets active
Policy(lvl) == [present |-> TRUE, level |-> lvl, active |-> TRUE]

\* the three policies loadCorePolicies builds
CorePolicies ==
    [id \in PolicyIds |->
        IF id = "cpp_safety_001" THEN Policy("CRITICAL")
        ELSE IF id \in CorePolicyIds THEN Policy("HIGH")
        ELSE NoPolicy]

\* loadCorePolicies: policies_[id] is assigned for the three ids, the rest of the map stays
loadCorePolicies ==
    [id \in PolicyIds |-> IF id \in CorePolicyIds THEN CorePolicies[id] ELSE policies_[id]]

\* checkPolicyCompliance: every path returns true
checkPolicyCompliance(policy_id, operation_type) ==
    IF policy_id = "cpp_safety_001"
           /\ operation_type \in {"memory_allocation", "thread_creation"} THEN TRUE
    ELSE IF policy_id = "cpp_performance_001"
           /\ operation_type \in {"learning_iteration", "neural_network_training"} THEN TRUE
    ELSE IF policy_id = "cpp_ethics_001"
           /\ operation_type \in {"reinforcement_learning", "behavior_modification"} THEN TRUE
    ELSE TRUE

\* a gate that fails closed: it refuses every operation while enforcement is off
canExecuteOperation_FailsClosed(operation_type) ==
    IF ~enforcement_active_ THEN FALSE
    ELSE \A policy_id \in PolicyIds :
            (policies_[policy_id].present /\ policies_[policy_id].active)
                => checkPolicyCompliance(policy_id, operation_type)

\* canExecuteOperation: true at once when enforcement is off, else the active policies decide
canExecuteOperation(operation_type) ==
    IF ~enforcement_active_ THEN TRUE
    ELSE \A policy_id \in PolicyIds :
            (policies_[policy_id].present /\ policies_[policy_id].active)
                => checkPolicyCompliance(policy_id, operation_type)

\* struct PolicyViolation, without its timestamp
PolicyViolation(policy_id, violation_type, severity, description) ==
    [policy_id |-> policy_id, violation_type |-> violation_type,
     severity |-> severity, description |-> description]

\* reportViolation recording only violations of policies the engine holds
reportViolation_KnownOnly(policy_id, violation_type, severity, description) ==
    /\ violations_' =
          IF policy_id \in PolicyIds /\ policies_[policy_id].present
          THEN Append(violations_,
                      PolicyViolation(policy_id, violation_type, severity, description))
          ELSE violations_
    /\ UNCHANGED <<policies_, enforcement_active_>>

reportViolation(policy_id, violation_type, severity, description) ==
    /\ violations_' = Append(violations_,
                             PolicyViolation(policy_id, violation_type, severity,
                                             description))
    /\ UNCHANGED <<policies_, enforcement_active_>>

\* enum class PolicyLevel
PolicyLevels == {"CRITICAL", "HIGH", "MEDIUM", "LOW"}

\* the ids of the policies with active set (the order of the vector is that of the
\* unordered_map: unspecified)
getActivePolicyIds == {id \in PolicyIds : policies_[id].present /\ policies_[id].active}

getActivePolicyCount == Cardinality(getActivePolicyIds)

getViolationCount == Len(violations_)

isEnforcementActive == enforcement_active_

\* the policy engine as a call finds it, and the id the call was given
PolicySnapshot(policy_id) ==
    [policy_id |-> policy_id, enforcement |-> enforcement_active_,
     active |-> getActivePolicyIds, violations |-> Len(violations_),
     stored |-> {id \in PolicyIds : policies_[id].present}]

\* what a call of the policy engine records of itself
PolicyCall(op, policy_id, value) ==
    lastOp' = op /\ outcome' = "ok" /\ ret' = value /\ pre' = PolicySnapshot(policy_id)

\* CPPPolicyEngine::initialize
policy_initialize ==
    /\ PolicyCall("CPPPolicyEngine::initialize", "", Returned(Bool(TRUE)))
    /\ policies_' = loadCorePolicies
    /\ enforcement_active_' = TRUE
    /\ UNCHANGED violations_

\* addPolicy replacing the policy that already has the id
addPolicy_Overwrites(policy_id, level) ==
    /\ PolicyCall("addPolicy", policy_id, Returned(Bool(~policies_[policy_id].present)))
    /\ policies_' = [policies_ EXCEPT ![policy_id] = Policy(level)]
    /\ UNCHANGED <<violations_, enforcement_active_>>

\* addPolicy(std::make_unique<Policy>(policy_id, ..., level))
addPolicy(policy_id, level) ==
    IF policies_[policy_id].present
    THEN /\ PolicyCall("addPolicy", policy_id, Returned(Bool(FALSE)))
         /\ UNCHANGED policyVars
    ELSE /\ PolicyCall("addPolicy", policy_id, Returned(Bool(TRUE)))
         /\ policies_' = [policies_ EXCEPT ![policy_id] = Policy(level)]
         /\ UNCHANGED <<violations_, enforcement_active_>>

\* removePolicy clearing the active flag of the policy and keeping it in the map
removePolicy_Deactivates(policy_id) ==
    IF policies_[policy_id].present
    THEN /\ PolicyCall("removePolicy", policy_id, Returned(Bool(TRUE)))
         /\ policies_' = [policies_ EXCEPT ![policy_id].active = FALSE]
         /\ UNCHANGED <<violations_, enforcement_active_>>
    ELSE /\ PolicyCall("removePolicy", policy_id, Returned(Bool(FALSE)))
         /\ UNCHANGED policyVars

\* declared in policy_engine.h and defined nowhere: policies_.erase(policy_id), true
\* when there was such a policy, as PolicyManagementTest expects
removePolicy(policy_id) ==
    IF policies_[policy_id].present
    THEN /\ PolicyCall("removePolicy", policy_id, Returned(Bool(TRUE)))
         /\ policies_' = [policies_ EXCEPT ![policy_id] = NoPolicy]
         /\ UNCHANGED <<violations_, enforcement_active_>>
    ELSE /\ PolicyCall("removePolicy", policy_id, Returned(Bool(FALSE)))
         /\ UNCHANGED policyVars

\* a lockdown that leaves the enforcement flag as it is
emergencyLockdown_KeepsEnforcement ==
    /\ PolicyCall("emergencyLockdown", "", Void)
    /\ policies_' = [id \in PolicyIds |->
                        IF policies_[id].present /\ policies_[id].level # "CRITICAL"
                        THEN [policies_[id] EXCEPT !.active = FALSE]
                        ELSE policies_[id]]
    /\ UNCHANGED <<violations_, enforcement_active_>>

emergencyLockdown ==
    /\ PolicyCall("emergencyLockdown", "", Void)
    /\ policies_' = [id \in PolicyIds |->
                        IF policies_[id].present /\ policies_[id].level # "CRITICAL"
                        THEN [policies_[id] EXCEPT !.active = FALSE]
                        ELSE policies_[id]]
    /\ enforcement_active_' = TRUE
    /\ UNCHANGED violations_

enableEnforcement ==
    /\ PolicyCall("enableEnforcement", "", Void)
    /\ enforcement_active_' = TRUE
    /\ UNCHANGED <<policies_, violations_>>

disableEnforcement ==
    /\ PolicyCall("disableEnforcement", "", Void)
    /\ enforcement_active_' = FALSE
    /\ UNCHANGED <<policies_, violations_>>

\* CPPPolicyEngine::shutdown
policy_shutdown ==
    /\ PolicyCall("CPPPolicyEngine::shutdown", "", Void)
    /\ enforcement_active_' = FALSE
    /\ policies_' = [id \in PolicyIds |-> NoPolicy]
    /\ violations_' = <<>>

\* the arguments callers give: the id of a core policy and one that names no policy
ReportedIds == {"cpp_safety_001", "test_policy"}
\* ids of added and removed policies: a caller's own id and the id of a core policy
ManagedIds == {"test_policy_001", "cpp_safety_001"}
\* levels of added policies
AddedLevels == {"CRITICAL", "LOW"}

ReportSome ==
    /\ Len(violations_) < MaxViolations
    /\ \E policy_id \in ReportedIds, severity \in PolicyLevels :
          /\ PolicyCall("reportViolation", policy_id, Void)
          /\ reportViolation(policy_id, "test_violation", severity, "Test violation")

AddSome == \E policy_id \in ManagedIds, level \in AddedLevels : addPolicy(policy_id, level)

RemoveSome == \E policy_id \in ManagedIds : removePolicy(policy_id)

\* a call made by the only caller of the policy engine
PolicyStep ==
    UNCHANGED <<engine, mode, inserted, getActionCalls, threadVars, loopVars, rewards>>

\* every operation of the policy engine the code defines
NextPolicy ==
    \/ PolicyStep /\ policy_initialize
    \/ PolicyStep /\ ReportSome
    \/ PolicyStep /\ AddSome
    \/ PolicyStep /\ emergencyLockdown
    \/ PolicyStep /\ enableEnforcement
    \/ PolicyStep /\ disableEnforcement
    \/ PolicyStep /\ policy_shutdown

SpecPolicy == Init /\ [][NextPolicy]_vars

\* the policy engine with the removePolicy that policy_engine.h declares
NextPolicyManagement ==
    \/ NextPolicy
    \/ PolicyStep /\ RemoveSome

SpecPolicyManagement == Init /\ [][NextPolicyManagement]_vars

\* the operation kinds checkPolicyCompliance names, and one it does not
OperationTypes ==
    {"memory_allocation", "thread_creation", "learning_iteration",
     "neural_network_training", "reinforcement_learning", "behavior_modification",
     "file_access"}

\* a caller asking the gate about some operation kind; the call is const
CanExecuteSome ==
    \E operation_type \in OperationTypes :
        /\ PolicyCall("canExecuteOperation", "", Returned(Bool(canExecuteOperation(operation_type))))
        /\ UNCHANGED policyVars

\* the policy engine and the callers of its gate
NextPolicyGate ==
    \/ NextPolicy
    \/ PolicyStep /\ CanExecuteSome

SpecPolicyGate == Init /\ [][NextPolicyGate]_vars

(***************************************************************************)
(* main and EVACPPCore::start (main.cpp)                                   *)
(***************************************************************************)
\* a state with as many features as the engine was built for
current_state_FullWidth == GoodState

\* createStateFromSensorData on the four sensor readings: four features, for an engine
\* built with input width 10
current_state == NarrowState

\* simulateActionExecution: 0.1 plus 0.2, 0.3, 0.4 or 0.5 by action_id; cpu_usage stays
\* below 80, so the penalty never applies
simulateActionExecution(action) ==
    (Unit \div 10) +
    (IF action.action_id = "action_0" THEN (2 * Unit) \div 10
     ELSE IF action.action_id = "action_1" THEN (3 * Unit) \div 10
     ELSE IF action.action_id = "action_2" THEN (4 * Unit) \div 10
     ELSE IF action.action_id = "action_3" THEN (5 * Unit) \div 10
     ELSE 0)

\* what the steps of the loop leave alone
LoopStep == Alive /\ UNCHANGED <<threadVars, running_, shutdown_requested, rewards>>

\* eva_core->initialize(): both engines, then start() up to the loop
main_initialize ==
    /\ LoopStep
    /\ at = "constructed"
    /\ policies_' = loadCorePolicies
    /\ enforcement_active_' = TRUE
    /\ initialize
    /\ at' = "start"
    /\ UNCHANGED <<violations_, cycle_count, gate, faults>>

\* start(): running_.store(true), cycle_count = 0
start ==
    /\ Alive
    /\ at = "start"
    /\ running_' = TRUE
    /\ cycle_count' = 0
    /\ at' = "while"
    /\ UNCHANGED <<engine, lastOp, outcome, ret, pre, mode, inserted, getActionCalls,
                   threadVars, policyVars, shutdown_requested, gate, faults, rewards>>

\* a loop that goes from the perception phase straight to the engine
start_while_SkipsGate ==
    /\ LoopStep
    /\ at = "while"
    /\ cycle_count < MaxCycles
    /\ IF running_ /\ ~shutdown_requested
       THEN cycle_count' = cycle_count + 1 /\ at' = "getAction"
       ELSE cycle_count' = cycle_count /\ at' = "returned"
    /\ gate' = "unchecked"
    /\ UNCHANGED <<engine, lastOp, outcome, ret, pre, mode, inserted, getActionCalls,
                   policyVars, faults>>

\* the loop condition, cycle_count++ and the perception phase
start_while ==
    /\ LoopStep
    /\ at = "while"
    /\ cycle_count < MaxCycles
    /\ IF running_ /\ ~shutdown_requested
       THEN cycle_count' = cycle_count + 1 /\ at' = "gate"
       ELSE cycle_count' = cycle_count /\ at' = "returned"
    /\ gate' = "unchecked"
    /\ UNCHANGED <<engine, lastOp, outcome, ret, pre, mode, inserted, getActionCalls,
                   policyVars, faults>>

\* the policy check before action: on a denial sleep and continue
start_gate ==
    /\ LoopStep
    /\ at = "gate"
    /\ IF ~canExecuteOperation("reinforcement_learning")
       THEN gate' = "denied" /\ at' = "while"
       ELSE gate' = "allowed" /\ at' = "getAction"
    /\ UNCHANGED <<engine, lastOp, outcome, ret, pre, mode, inserted, getActionCalls,
                   policyVars, cycle_count, faults>>

\* where a call of the cycle leaves the loop: in the handler when it threw
AfterCall(next) ==
    /\ at' = IF outcome' = "throw" THEN "catch" ELSE next
    /\ faults' = IF outcome' = "throw" THEN faults + 1 ELSE faults
    /\ UNCHANGED <<policyVars, cycle_count, gate>>

start_getAction ==
    /\ LoopStep
    /\ at = "getAction"
    /\ getAction(current_state)
    /\ AfterCall("storeExperience")

\* reward, next_state = current_state, storeExperience(..., false)
start_storeExperience ==
    /\ LoopStep
    /\ at = "storeExperience"
    /\ LET action == ret.value
       IN  storeExperience(current_state, action, simulateActionExecution(action),
                           current_state, FALSE)
    /\ AfterCall("learn")

start_learn ==
    /\ LoopStep
    /\ at = "learn"
    /\ learn
    /\ AfterCall("while")

\* a handler that reports the fault with severity MEDIUM
start_catch_Medium ==
    /\ LoopStep
    /\ at = "catch"
    /\ reportViolation("cpp_safety_001", "evolution_cycle_error", "MEDIUM",
                       "Input size mismatch")
    /\ at' = "while"
    /\ UNCHANGED <<engine, lastOp, outcome, ret, pre, mode, inserted, getActionCalls,
                   cycle_count, gate, faults>>

\* catch (const std::exception& e): reportViolation(..., PolicyLevel::HIGH, e.what())
start_catch ==
    /\ LoopStep
    /\ at = "catch"
    /\ reportViolation("cpp_safety_001", "evolution_cycle_error", "HIGH",
                       "Input size mismatch")
    /\ at' = "while"
    /\ UNCHANGED <<engine, lastOp, outcome, ret, pre, mode, inserted, getActionCalls,
                   cycle_count, gate, faults>>

\* SIGINT or SIGTERM, at any moment
signalHandler ==
    /\ Alive
    /\ at \notin {"returned", "terminated"}
    /\ ~shutdown_requested
    /\ shutdown_requested' = TRUE
    /\ UNCHANGED <<engine, lastOp, outcome, ret, pre, mode, inserted, getActionCalls,
                   threadVars, policyVars, running_, cycle_count, at, gate, faults,
                   rewards>>

\* eva_core->shutdown() after start() has returned: both engines shut down
main_shutdown ==
    /\ Alive
    /\ at = "returned"
    /\ running_' = FALSE
    /\ shutdown
    /\ enforcement_active_' = FALSE
    /\ policies_' = [id \in PolicyIds |-> NoPolicy]
    /\ violations_' = <<>>
    /\ at' = "terminated"
    /\ UNCHANGED <<threadVars, shutdown_requested, cycle_count, gate, faults, rewards>>

NextLoop ==
    \/ main_initialize
    \/ start
    \/ start_while
    \/ start_gate
    \/ start_getAction
    \/ start_storeExperience
    \/ start_learn
    \/ start_catch
    \/ signalHandler
    \/ main_shutdown

SpecLoop == Init /\ [][NextLoop]_vars


\* the calls of the engine a cycle makes
EngineCalls == {"getAction", "storeExperience", "learn"}

C19_FaultsCaughtAndReported ==
    /\ [](at \notin {"terminated"} =>
             Len(violations_) + (IF at = "catch" THEN 1 ELSE 0) = faults)
    /\ [][/\ (at \in EngineCalls /\ at' # at /\ outcome' = "throw") => at' = "catch"
          /\ (at = "catch" /\ at' # at) =>
                /\ Len(violations_') = Len(violations_) + 1
                /\ violations_'[Len(violations_')].severity = "HIGH"
                /\ SubSeq(violations_', 1, Len(violations_)) = violations_
                /\ at' = "while"
          /\ (at # "catch" /\ at' # "terminated") => violations_' = violations_
          /\ (at # "returned" /\ at' = "returned") =>
                (shutdown_requested \/ ~running_)]_vars

\* two cycles in a row have failed in learn and each has been reported
C19_TwoFaultsReported ==
    /\ at = "while"
    /\ faults = 2
    /\ Len(violations_) = 2
    /\ violations_[2].severity = "HIGH"
    /\ lastOp = "learn"
    /\ outcome = "throw"


(***************************************************************************)
(* Episodes                                                                *)
(***************************************************************************)
\* the operations that set total_episodes_ back to 0
ResetsTotalEpisodes == {"initialize", "resetLearning"}

\* C26: startEpisode increments the total-episode counter by exactly one, endEpisode
\* leaves it unchanged, and so does every other operation that is not a reset: since
\* the last reset getTotalEpisodes is the number of startEpisode calls.
C26_EpisodesCountStartEpisode ==
    [][/\ lastOp' = "startEpisode" => getTotalEpisodes' = getTotalEpisodes + 1
       /\ lastOp' \notin ResetsTotalEpisodes \cup {"startEpisode"}
             => getTotalEpisodes' = getTotalEpisodes
       /\ (lastOp' \in ResetsTotalEpisodes /\ getTotalEpisodes' # getTotalEpisodes)
             => getTotalEpisodes' = 0]_vars

\* an endEpisode that followed MaxEpisodes startEpisode calls and left the counter
\* where it was
C26_EpisodeEnded ==
    /\ lastOp = "endEpisode"
    /\ pre.total_episodes = MaxEpisodes
    /\ getTotalEpisodes = MaxEpisodes

C29_SyncCounterBelowFrequency ==
    /\ 0 <= steps_since_update_
    /\ steps_since_update_ < update_frequency_

\* a learn call that found the counter one below the frequency and set it back to 0
C29_CounterWrapped ==
    /\ lastOp = "learn"
    /\ outcome = "ok"
    /\ pre.size >= batch_size_
    /\ pre.steps_since_update = update_frequency_ - 1
    /\ steps_since_update_ = 0


(***************************************************************************)
(* Training targets                                                        *)
(***************************************************************************)
\* a terminal transition, and one whose action is the action_2 that selectRandomAction
\* returns whatever action_size is
TerminalExperience ==
    Experience(GoodState, Action(ActionName(1), <<1>>), Unit \div 2, GoodState, TRUE)
StrayExperience ==
    Experience(GoodState, Action(ActionName(2), <<2>>), Unit, GoodState, FALSE)
TrainingExperiences == {ValidExperience, TerminalExperience, StrayExperience}

\* storeExperience and learn only, storing terminal and non-terminal transitions
NextTraining ==
    \/ Sequential /\ StoreSome(TrainingExperiences)
    \/ Sequential /\ learn

SpecTraining == Init /\ [][NextTraining]_vars

\* reward when done, reward + gamma * max(target-network prediction on next_state)
\* otherwise
TargetValue(experience) ==
    IF experience.done THEN experience.reward
    ELSE experience.reward
         + (gamma_.num * MaxTo(predict(target_network_, experience.next_state.features),
                               action_size)) \div gamma_.den

\* C27: for every transition learn may sample, the target vector it trains toward has
\* one component per action, equals the live network's prediction on the transition's
\* state in every component other than the one at the transition's action index, and
\* holds the target value at that index (an index that is no component overwrites none).
C27_TargetBlendsPredictionAndTargetValue ==
    \A k \in 1..Len(replay_buffer_) :
        LET experience == replay_buffer_[k]
            action_idx == experience.action.parameters[1]
            prediction == predict(q_network_, experience.state.features)
            target == TargetVector(q_network_, target_network_, experience)
        IN  /\ Len(target) = action_size
            /\ \A i \in 1..action_size : i # action_idx + 1 => target[i] = prediction[i]
            /\ action_idx < action_size => target[action_idx + 1] = TargetValue(experience)

\* a learn trained on a terminal and a non-terminal transition, and the target value of
\* the non-terminal one is not its reward
C27_TrainedOnBothKinds ==
    /\ lastOp = "learn"
    /\ outcome = "ok"
    /\ replay_buffer_ = <<TerminalExperience, ValidExperience>>
    /\ q_network_.w1 # InitialLive.w1
    /\ TargetValue(ValidExperience) # ValidExperience.reward
    /\ TargetValue(TerminalExperience) = TerminalExperience.reward


(***************************************************************************)
(* The decision loop as main configures it                                 *)
(***************************************************************************)
\* the violations a loop that has started cycle_count cycles has reported when it is
\* back at its condition: one for each cycle whose learn found a full batch
FailedCycles == IF cycle_count < batch_size_ THEN 0 ELSE cycle_count - batch_size_ + 1

\* C30: in the loop of main, every learn that finds at least batch_size_ transitions
\* throws and leaves the sync counter, epsilon and the networks untouched; epsilon is
\* 1.0 in every state; every getAction returns a randomly drawn action; and back at the
\* loop condition the violations are one per cycle whose learn found a full batch, all
\* of severity HIGH.
C30_LearnFailsEveryCycleOnceBatchHeld ==
    /\ [](epsilon_ = Unit)
    /\ [](at = "while" =>
             /\ Len(violations_) = FailedCycles
             /\ \A i \in 1..Len(violations_) : violations_[i].severity = "HIGH")
    /\ [][/\ (at = "learn" /\ at' # at /\ Len(replay_buffer_) >= batch_size_) =>
                /\ outcome' = "throw"
                /\ at' = "catch"
                /\ UNCHANGED <<steps_since_update_, epsilon_, q_network_, target_network_>>
          /\ (at = "learn" /\ at' # at /\ Len(replay_buffer_) < batch_size_) =>
                outcome' = "ok" /\ at' = "while"
          /\ (at = "getAction" /\ at' # at) =>
                /\ outcome' = "ok"
                /\ ret'.value \in selectRandomAction]_vars

\* the loop is back at its condition after two cycles in a row whose learn found a
\* full batch
C30_TwoFailedCycles ==
    /\ at = "while"
    /\ cycle_count = batch_size_ + 1
    /\ Len(replay_buffer_) >= batch_size_
    /\ Len(violations_) = 2
    /\ steps_since_update_ = 0
    /\ epsilon_ = Unit


(***************************************************************************)
(* Policy engine                                                           *)
(***************************************************************************)
\* C22: each reportViolation call appends exactly one violation, carrying the policy id
\* and the severity it was given, whether or not the id names a policy the engine holds,
\* and changes neither the policies nor the enforcement flag.
C22_ReportViolationAddsExactlyOne ==
    [][lastOp' = "reportViolation" =>
          /\ getViolationCount' = getViolationCount + 1
          /\ SubSeq(violations_', 1, Len(violations_)) = violations_
          /\ violations_'[Len(violations_')].policy_id = pre'.policy_id
          /\ policies_' = policies_
          /\ isEnforcementActive' = isEnforcementActive]_vars

\* a second violation reported against an id that names no policy, with severity LOW
\* and enforcement disabled
C22_ReportedAgainstNoPolicy ==
    /\ lastOp = "reportViolation"
    /\ pre.policy_id = "test_policy"
    /\ pre.violations = 1
    /\ getViolationCount = 2
    /\ violations_[2].severity = "LOW"
    /\ violations_[2].policy_id \notin PolicyIds
    /\ ~isEnforcementActive

\* C23: after emergencyLockdown, whatever the state before it, every active policy has
\* level CRITICAL, enforcement is active, and the active policies are no more than before.
C23_LockdownLeavesOnlyCritical ==
    [][lastOp' = "emergencyLockdown" =>
          /\ \A id \in getActivePolicyIds' : policies_'[id].level = "CRITICAL"
          /\ isEnforcementActive'
          /\ getActivePolicyCount' <= getActivePolicyCount
          /\ getActivePolicyIds' \subseteq getActivePolicyIds]_vars

\* a lockdown that found enforcement disabled and an active LOW policy added by a caller
C23_LockdownFromDisabled ==
    /\ lastOp = "emergencyLockdown"
    /\ ~pre.enforcement
    /\ "test_policy_001" \in pre.active
    /\ policies_["test_policy_001"].level = "LOW"
    /\ getActivePolicyIds = {"cpp_safety_001"}
    /\ isEnforcementActive

\* C24: addPolicy with an id the engine does not hold returns true and the policy is
\* among the active ids afterwards; with an id it holds it returns false and leaves the
\* stored policies as they were.
C24_AddPolicyRejectsExistingId ==
    [][lastOp' = "addPolicy" =>
          IF ~policies_[pre'.policy_id].present
          THEN /\ ret' = Returned(Bool(TRUE))
               /\ pre'.policy_id \in getActivePolicyIds'
               /\ \A id \in PolicyIds \ {pre'.policy_id} : policies_'[id] = policies_[id]
          ELSE /\ ret' = Returned(Bool(FALSE))
               /\ policies_' = policies_]_vars

\* the id of a policy added earlier was offered again and refused
C24_SecondAddRefused ==
    /\ lastOp = "addPolicy"
    /\ ret = Returned(Bool(FALSE))
    /\ pre.policy_id = "test_policy_001"
    /\ "test_policy_001" \in pre.stored
    /\ "test_policy_001" \in getActivePolicyIds
    /\ policies_["test_policy_001"].level = "LOW"

RewardValues == {0, Unit, Unit + Unit \div 4 + Unit \div 8}

\* the rewards of up to MaxRewards stored transitions, oldest first
RewardLists == UNION {[1..n -> RewardValues] : n \in 0..MaxRewards}

\* the engine as constructed, and the rewards of a buffer of the code's capacity
InitAverage == Constructed /\ rewards \in RewardLists

\* getAverageReward on the buffer of the engine
readAverageReward ==
    /\ Call("getAverageReward", "ok", Returned(Number(getAverageReward)))
    /\ UNCHANGED <<engine, mode, inserted, getActionCalls>>

\* getAverageReward on a buffer that holds the transitions of rewards
readAverageRewardOf ==
    /\ Call("getAverageReward of rewards", "ok", Returned(Number(AverageReward(rewards))))
    /\ UNCHANGED <<engine, mode, inserted, getActionCalls>>

\* storeExperience, learn and getAverageReward
NextAverage ==
    \/ Sequential /\ StoreSome(ValidExperiences)
    \/ Sequential /\ learn
    \/ Sequential /\ readAverageReward
    \/ Sequential /\ readAverageRewardOf

SpecAverage == InitAverage /\ [][NextAverage]_vars

\* every reward of the list is r
AllCarry(stored, r) == \A i \in 1..Len(stored) : stored[i] = r

\* every running sum of the list is a value of the format
ExactlySummed(stored) == \A n \in 1..Len(stored) : Representable(SumTo(stored, n))

\* a learn call leaves the buffer, and with it the average reward, as they were
LearnKeepsBuffer ==
    lastOp' = "learn" =>
        /\ replay_buffer_' = replay_buffer_
        /\ getAverageReward' = getAverageReward

\* the average reward is 0.0 for an empty buffer
EmptyAveragesZero ==
    /\ replay_buffer_ = <<>> => getAverageReward = 0
    /\ (lastOp = "getAverageReward of rewards" /\ rewards = <<>>) => ret.value.number = 0

\* when every running sum is exact, the average is the double nearest to the unweighted
\* mean, and so it is r when every reward is r
ExactSumsAverageToMean ==
    (lastOp = "getAverageReward of rewards" /\ rewards # <<>> /\ ExactlySummed(rewards)) =>
        /\ ret.value.number = Double(SumTo(rewards, Len(rewards)), Len(rewards))
        /\ AllCarry(rewards, rewards[1]) => ret.value.number = rewards[1]

\* whatever r is, the average of transitions that all carry reward r is r
EqualRewardsAverageToReward ==
    (lastOp = "getAverageReward of rewards" /\ rewards # <<>>
        /\ AllCarry(rewards, rewards[1])) => ret.value.number = rewards[1]

\* C21: learn never changes the contents of the buffer, so getAverageReward is the same
\* before and after any number of learn calls; it is 0.0 for an empty buffer; when every
\* running sum of the stored rewards is exact it is the double nearest to their unweighted
\* mean, and so it is r when all of them are r.
C21_LearnKeepsAverageReward ==
    [][LearnKeepsBuffer /\ EmptyAveragesZero' /\ ExactSumsAverageToMean']_vars

\* C21 as stated: whatever r is, the average of transitions that all carry reward r is r.
C21_AverageOfEqualRewardsIsReward ==
    [][LearnKeepsBuffer /\ EmptyAveragesZero' /\ EqualRewardsAverageToReward']_vars

\* the average was read as 1.0 after a learn that trained on a full buffer of
\* transitions of reward 1.0
C21_AverageAfterTraining ==
    /\ lastOp = "getAverageReward"
    /\ ret.value.number = Unit
    /\ Len(replay_buffer_) = buffer_capacity_
    /\ AllCarry([i \in 1..Len(replay_buffer_) |-> replay_buffer_[i].reward], Unit)
    /\ q_network_.w1 # InitialLive.w1

(***************************************************************************)
(* The gate of the policy engine                                           *)
(***************************************************************************)
\* the calls that switch enforcement on
ClosesGate == {"enableEnforcement", "CPPPolicyEngine::initialize", "emergencyLockdown"}

\* a step that keeps the gate open while enforcement is off
GateFailsOpen ==
    /\ lastOp' = "CPPPolicyEngine::shutdown"
        => /\ ~enforcement_active_'
           /\ \A id \in PolicyIds : ~policies_'[id].present
    /\ lastOp' = "disableEnforcement" => ~enforcement_active_'
    /\ (~enforcement_active_ /\ enforcement_active_') => lastOp' \in ClosesGate
    /\ (lastOp' = "canExecuteOperation" /\ ~enforcement_active_)
        => /\ ret' = Returned(Bool(TRUE))
           /\ ~enforcement_active_'
    /\ ~enforcement_active_'
        => \A operation_type \in OperationTypes : canExecuteOperation(operation_type)'

\* C31: shutdown empties the policies and switches enforcement off, disableEnforcement
\* switches it off; enforcement then stays off until enableEnforcement, initialize or
\* emergencyLockdown is called, and while it is off canExecuteOperation returns true
\* for every operation kind, whatever policies are stored and active.
C31_GateFailsOpenWhenNotEnforcing == [][GateFailsOpen]_vars

\* the gate was asked while enforcement was off and active policies were stored, and
\* it let the operation through
C31_AskedWhileDisabled ==
    /\ lastOp = "canExecuteOperation"
    /\ ~pre.enforcement
    /\ pre.active # {}
    /\ ret = Returned(Bool(TRUE))

==========================================================================
